---- MODULE Spec2Model ----
(***************************************************************************)
(* Model of scripts/extract-button-tokens.py: the recursive walk           *)
(* find_components over a parsed JSON tree, and the entry point that       *)
(* loads the input file, walks it, prints a report and writes the first    *)
(* ten records to the output file.                                         *)
(*                                                                         *)
(* JSON values are tagged records: [t |-> "null"], [t |-> "num", v],       *)
(* [t |-> "str", v] with v a sequence of one-character strings,            *)
(* [t |-> "arr", v] with v a sequence of values and [t |-> "obj", v] with  *)
(* v a function from key names to values.  A Python str is a sequence of   *)
(* one-character strings; Python None is the JSON null.                    *)
(***************************************************************************)
EXTENDS Integers, Sequences, FiniteSets, TLC

\* ---------------------------------------------------------------- bounds
\* children per node in the structure family of input trees
MaxChildren == 2
\* length of the single-child chains of input trees
MaxDepth == 3
\* children of the root in the wide family (more than the sample size)
MaxWide == 11
\* style keys set on one node in the style family
MaxStyleKeys == 2

\* components[:10], line 85
SampleLimit == 10

\* ---------------------------------------------------------- JSON values
JNull == [t |-> "null"]
JNum(n) == [t |-> "num", v |-> n]
JStr(s) == [t |-> "str", v |-> s]
JArr(a) == [t |-> "arr", v |-> a]
JObj(f) == [t |-> "obj", v |-> f]

EmptyDict == [k \in {} |-> JNull]

\* d[k] = v on a dict
Put(d, k, v) == [x \in (DOMAIN d) \cup {k} |-> IF x = k THEN v ELSE d[x]]

\* the dict d extended by the entries of e (keys of e win)
Merge(d, e) == [x \in (DOMAIN d) \cup (DOMAIN e) |-> IF x \in DOMAIN e THEN e[x] ELSE d[x]]

\* node.get(key, default) on a dict node
Get(node, key, default) == IF key \in DOMAIN node.v THEN node.v[key] ELSE default

\* ------------------------------------------------------ string literals
sButton == <<"B", "u", "t", "t", "o", "n">>
sCOMPONENT == <<"C", "O", "M", "P", "O", "N", "E", "N", "T">>
sunnamed == <<"u", "n", "n", "a", "m", "e", "d">>
sNone == <<"N", "o", "n", "e">>
sEmpty == <<>>

\* the concatenation of a sequence of sequences
RECURSIVE Concat(_)
Concat(parts) == IF parts = <<>> THEN <<>> ELSE parts[1] \o Concat(Tail(parts))

\* Python's `sub in s` on two str
Contains(s, sub) ==
    \E i \in 0..(Len(s) - Len(sub)) : SubSeq(s, i + 1, i + Len(sub)) = sub

\* Python's `'Button' in value`: substring search on a str, TypeError on
\* None and on a number ("argument of type ... is not iterable")
PyIn(sub, value) ==
    IF value.t = "str"
    THEN (IF Contains(value.v, sub) THEN "true" ELSE "false")
    ELSE "raise"

Digits == <<"0", "1", "2", "3", "4", "5", "6", "7", "8", "9">>

\* str(value) as an f-string formats it: a str verbatim, None as "None",
\* a one-digit integer as its digit
PyStr(value) ==
    IF value.t = "str" THEN value.v
    ELSE IF value.t = "null" THEN sNone
    ELSE <<Digits[value.v + 1]>>

\* ------------------------------------------------------ find_components
\* isinstance(node, dict), line 15
is_dict(node) == node.t = "obj"

\* line 17: node.get('type') == 'COMPONENT' and 'Button' in node.get('name', '')
\* ("true", "false", or "raise" when the `in` raises TypeError); the `and`
\* does not evaluate its right side when the type differs
is_button_component(node) ==
    IF Get(node, "type", JNull) = JStr(sCOMPONENT)
    THEN PyIn(sButton, Get(node, "name", JStr(sEmpty)))
    ELSE "false"

\* lines 35-40: the padding composite, node.get giving None for a missing key
padding(node) ==
    JObj([left   |-> Get(node, "paddingLeft", JNull),
          right  |-> Get(node, "paddingRight", JNull),
          top    |-> Get(node, "paddingTop", JNull),
          bottom |-> Get(node, "paddingBottom", JNull)])

\* has_key with the test written `if node.get(key)`: a present key whose
\* value is None, 0 or empty does not count
has_key_truthy(node, key) ==
    /\ key \in DOMAIN node.v
    /\ node.v[key] \notin {JNull, JNum(0), JStr(<<>>), JArr(<<>>), JObj(EmptyDict)}

\* `if key in node` of lines 26-48
has_key(node, key) == key \in DOMAIN node.v

\* has_padding with the test widened to any of the four padding keys
has_padding_any(node) ==
    \E key \in {"paddingLeft", "paddingRight", "paddingTop", "paddingBottom"} :
        key \in DOMAIN node.v

\* lines 34-35: the test that decides whether padding is emitted
has_padding(node) == has_key(node, "paddingLeft")

\* lines 22-48: component_info['properties'] after the nine `if`s
properties(node) ==
    LET p0 == EmptyDict
        p1 == IF has_key(node, "fills") THEN Put(p0, "fills", node.v["fills"]) ELSE p0
        p2 == IF has_key(node, "strokes") THEN Put(p1, "strokes", node.v["strokes"]) ELSE p1
        p3 == IF has_key(node, "effects") THEN Put(p2, "effects", node.v["effects"]) ELSE p2
        p4 == IF has_key(node, "cornerRadius") THEN Put(p3, "cornerRadius", node.v["cornerRadius"]) ELSE p3
        p5 == IF has_padding(node) THEN Put(p4, "padding", padding(node)) ELSE p4
        p6 == IF has_key(node, "itemSpacing") THEN Put(p5, "itemSpacing", node.v["itemSpacing"]) ELSE p5
        p7 == IF has_key(node, "layoutMode") THEN Put(p6, "layoutMode", node.v["layoutMode"]) ELSE p6
        p8 == IF has_key(node, "characters") THEN Put(p7, "text", node.v["characters"]) ELSE p7
        p9 == IF has_key(node, "style") THEN Put(p8, "textStyle", node.v["style"]) ELSE p8
    IN p9

\* line 54: f"{path}/{node.get('name', 'unnamed')}"
new_path(node, path) == path \o <<"/">> \o PyStr(Get(node, "name", JStr(sunnamed)))

\* component_info with the node's own name counted into its path
component_info_own_name(node, path) ==
    [name       |-> Get(node, "name", JNull),
     id         |-> Get(node, "id", JNull),
     path       |-> new_path(node, path),
     properties |-> properties(node)]

\* lines 18-48: the record of a matched node
component_info(node, path) ==
    [name       |-> Get(node, "name", JNull),
     id         |-> Get(node, "id", JNull),
     path       |-> path,
     properties |-> properties(node)]

\* iter_children walking the children last to first
iter_children_reversed(children) ==
    IF children.t = "arr"
    THEN [raised |-> FALSE,
          items |-> [i \in 1..Len(children.v) |-> children.v[Len(children.v) + 1 - i]]]
    ELSE IF children.t = "str"
    THEN [raised |-> FALSE, items |-> [i \in 1..Len(children.v) |-> JStr(<<children.v[i]>>)]]
    ELSE [raised |-> TRUE, items |-> <<>>]

\* iter_children descending into arrays met among the children
iter_children_into_arrays(children) ==
    IF children.t = "arr"
    THEN [raised |-> FALSE,
          items |-> Concat([i \in 1..Len(children.v) |->
                              IF children.v[i].t = "arr" THEN children.v[i].v
                              ELSE <<children.v[i]>>])]
    ELSE IF children.t = "str"
    THEN [raised |-> FALSE, items |-> [i \in 1..Len(children.v) |-> JStr(<<children.v[i]>>)]]
    ELSE [raised |-> TRUE, items |-> <<>>]

\* line 55: what `for child in node['children']` iterates over: the elements
\* of an array, the characters of a str; None and a number are not iterable
iter_children(children) ==
    IF children.t = "arr" THEN [raised |-> FALSE, items |-> children.v]
    ELSE IF children.t = "str"
    THEN [raised |-> FALSE, items |-> [i \in 1..Len(children.v) |-> JStr(<<children.v[i]>>)]]
    ELSE [raised |-> TRUE, items |-> <<>>]

\* the outcome of a call: it returned the accumulator, or it raised
Returned(components) == [raised |-> FALSE, components |-> components]
Raised == [raised |-> TRUE, components |-> <<>>]

RECURSIVE find_components(_, _, _)
RECURSIVE for_child(_, _, _, _)

\* lines 10-58, the accumulator threaded through the calls
find_components(node, path, components) ==
    IF ~is_dict(node) THEN Returned(components)
    ELSE LET m == is_button_component(node)
         IN IF m = "raise" THEN Raised
            ELSE LET acc == IF m = "true"
                            THEN Append(components, component_info(node, path))
                            ELSE components
                 IN IF has_key(node, "children")
                    THEN LET it == iter_children(node.v["children"])
                         IN IF it.raised THEN Raised
                            ELSE for_child(it.items, 1, new_path(node, path), acc)
                    ELSE Returned(acc)

\* lines 55-56: the loop over the children from the i-th on
for_child(items, i, path, components) ==
    IF i > Len(items) THEN Returned(components)
    ELSE LET r == find_components(items[i], path, components)
         IN IF r.raised THEN r
            ELSE for_child(items, i + 1, path, r.components)

\* ----------------------------------------------------------- the report
\* the characters of the modelled strings in code-point order
Alphabet == <<"-", "/", "0", "1", "2", "3", "4", "5", "6", "7", "8", "9", ":",
              "B", "C", "E", "F", "M", "N", "O", "P", "R", "T", "X",
              "a", "b", "d", "e", "i", "m", "n", "o", "p", "r", "t", "u", "y">>

Code(c) == CHOOSE i \in 1..Len(Alphabet) : Alphabet[i] = c

\* Python's a < b on two str: code-point lexicographic order
RECURSIVE StrLess(_, _)
StrLess(a, b) ==
    IF b = <<>> THEN FALSE
    ELSE IF a = <<>> THEN TRUE
    ELSE IF a[1] = b[1] THEN StrLess(Tail(a), Tail(b))
    ELSE Code(a[1]) < Code(b[1])

\* line 76: set(c['name'] for c in components)
unique_names(comps) == {comps[i].name : i \in 1..Len(comps)}

\* line 78: sorted(unique_names), the names being str
RECURSIVE sorted(_)
sorted(names) ==
    IF names = {} THEN <<>>
    ELSE LET least == CHOOSE x \in names :
                          \A y \in names : x = y \/ StrLess(x.v, y.v)
         IN <<least>> \o sorted(names \ {least})

\* line 79: sum(1 for c in components if c['name'] == name)
count(comps, name) == Cardinality({i \in 1..Len(comps) : comps[i].name = name})

\* lines 76-80: the printed variants, one line per distinct name
variants_of(comps) ==
    LET names == sorted(unique_names(comps))
    IN [i \in 1..Len(names) |-> [name |-> names[i], count |-> count(comps, names[i])]]

\* sample without the slice
sample_all(comps) == comps

\* line 85: components[:10]
sample(comps) ==
    SubSeq(comps, 1, IF Len(comps) < SampleLimit THEN Len(comps) ELSE SampleLimit)

\* ------------------------------------------------------------ the inputs
sFRAME == <<"F", "R", "A", "M", "E">>
sXButton == <<"X", "B", "u", "t", "t", "o", "n">>
sF == <<"F">>

\* the fields of the nodes the input trees are built from
ButtonNode == [type |-> JStr(sCOMPONENT), name |-> JStr(sButton), id |-> JStr(<<"1", ":", "1">>)]
XButtonNode == [type |-> JStr(sCOMPONENT), name |-> JStr(sXButton)]
NoNameComponent == [type |-> JStr(sCOMPONENT), id |-> JStr(<<"1", ":", "3">>)]
NullNameComponent == [type |-> JStr(sCOMPONENT), name |-> JNull]
ButtonFrame == [type |-> JStr(sFRAME), name |-> JStr(sButton)]
NullNameFrame == [type |-> JStr(sFRAME), name |-> JNull]
EmptyNameFrame == [type |-> JStr(sFRAME), name |-> JStr(sEmpty)]
PlainNode == [name |-> JStr(sF)]

Kinds == {ButtonNode, XButtonNode, NoNameComponent, NullNameComponent,
          ButtonFrame, NullNameFrame, EmptyNameFrame, PlainNode}

\* values that are not JSON objects
NonDicts == {JNull, JNum(8), JStr(sButton), JArr(<<JObj(ButtonNode)>>)}

Leaves == {JObj(k) : k \in Kinds} \cup NonDicts

SeqsUpTo(S, n) == UNION {[1..k -> S] : k \in 0..n}

WithChildren(fields, children) == JObj(Put(fields, "children", JArr(children)))

\* every root kind over every sequence of at most MaxChildren leaves
StructureTrees ==
    Leaves \cup {WithChildren(k, ch) : k \in Kinds, ch \in SeqsUpTo(Leaves, MaxChildren)}

\* single-child chains of MaxDepth nodes
RECURSIVE Chain(_)
Chain(d) ==
    IF d <= 1 THEN Leaves
    ELSE {WithChildren(k, <<c>>) : k \in Kinds, c \in Chain(d - 1)}

\* a root with SampleLimit..MaxWide matching children of two kinds
WideTrees ==
    {WithChildren(PlainNode, ch) :
        ch \in UNION {[1..n -> {JObj(ButtonNode), JObj(XButtonNode)}] : n \in SampleLimit..MaxWide}}

StyleKeys == {"fills", "strokes", "effects", "cornerRadius", "paddingLeft",
              "paddingRight", "paddingTop", "paddingBottom", "itemSpacing",
              "layoutMode", "characters", "style"}

StyleValues == {JNull, JNum(0), JNum(8)}

\* a matching node carrying at most MaxStyleKeys style keys
StyleTrees ==
    {JObj(Merge(ButtonNode, m)) :
        m \in UNION {[S -> StyleValues] :
                        S \in {S \in SUBSET StyleKeys : Cardinality(S) <= MaxStyleKeys}}}

sbuttonprimary == <<"b", "u", "t", "t", "o", "n", "-", "p", "r", "i", "m", "a", "r", "y">>
sButtonPrimary == <<"B", "u", "t", "t", "o", "n", "P", "r", "i", "m", "a", "r", "y">>
sButto == <<"B", "u", "t", "t", "o">>
sBButton == <<"B", "B", "u", "t", "t", "o", "n">>
scomponent == <<"c", "o", "m", "p", "o", "n", "e", "n", "t">>

TypeFields == {EmptyDict} \cup
    {[type |-> ty] : ty \in {JNull, JStr(sCOMPONENT), JStr(scomponent), JStr(sFRAME)}}

NameFields == {EmptyDict} \cup
    {[name |-> nm] : nm \in {JNull, JNum(8), JStr(sEmpty), JStr(sButton), JStr(sbuttonprimary),
                             JStr(sButtonPrimary), JStr(sButto), JStr(sBButton)}}

\* one node, every combination of type and name
MatchTrees == {JObj(Merge(ty, nm)) : ty \in TypeFields, nm \in NameFields}

\* a `children` value that is not an array
OddChildrenTrees ==
    {JObj(Put(k, "children", c)) : k \in Kinds, c \in {JNull, JNum(8), JStr(sButton)}}

Trees == StructureTrees \cup Chain(MaxDepth) \cup WideTrees \cup StyleTrees
            \cup MatchTrees \cup OddChildrenTrees

\* the parsed content of file-full.json
Documents ==
    {JObj([document |-> t]) : t \in Trees}
        \cup {JObj(EmptyDict), JObj([name |-> JStr(sButton)]), JArr(<<>>)}

\* file-full.json: missing, not valid JSON, or a JSON text (held parsed)
InputFiles ==
    {[k |-> "missing"], [k |-> "invalid"]} \cup {[k |-> "json", v |-> d] : d \in Documents}

\* a record left in button-components.json by an earlier run
StaleRecord == component_info(JObj(ButtonFrame), <<"/", "o", "n", "e">>)

\* button-components.json before the run: absent, or an earlier sample
OutputFiles == {[k |-> "none"], [k |-> "json", v |-> <<StaleRecord>>]}

\* ------------------------------------------------------------- the state
VARIABLES
    input_file,     \* .figma/cache/file-full.json
    output_file,    \* .figma/cache/button-components.json
    before,         \* output_file as it was when the process started
    pc,             \* position of the process
    data,           \* extract_button_tokens: data
    components,     \* extract_button_tokens: components
    found,          \* the count printed by line 73
    variants,       \* the lines printed by lines 77-80
    console,        \* the progress messages printed so far
    returned,       \* the value extract_button_tokens returned
    error,          \* the exception in flight, "none" if there is none
    exit_status     \* the exit status, -1 while the process runs

vars == <<input_file, output_file, before, pc, data, components, found,
          variants, console, returned, error, exit_status>>

Unset == [t |-> "unset"]

Init ==
    /\ input_file \in InputFiles
    /\ output_file \in OutputFiles
    /\ before = output_file
    /\ pc = "main"
    /\ data = Unset
    /\ components = <<>>
    /\ found = -1
    /\ variants = <<>>
    /\ console = <<>>
    /\ returned = <<>>
    /\ error = "none"
    /\ exit_status = -1

\* Main without the existence check
Main_no_check ==
    /\ pc = "main"
    /\ pc' = "load"
    /\ UNCHANGED <<input_file, output_file, before, data, components, found,
                   variants, console, returned, error, exit_status>>

\* lines 92-97: the existence check of the entry point
Main ==
    /\ pc = "main"
    /\ IF input_file.k = "missing"
       THEN /\ console' = console \o <<"no_encontrado", "ejecuta_primero">>
            /\ exit_status' = 1
            /\ pc' = "exited"
       ELSE /\ pc' = "load"
            /\ UNCHANGED <<console, exit_status>>
    /\ UNCHANGED <<input_file, output_file, before, data, components, found,
                   variants, returned, error>>

\* lines 62-68: open and json.load
Load ==
    /\ pc = "load"
    /\ IF input_file.k = "json"
       THEN /\ data' = input_file.v
            /\ console' = console \o <<"analizando", "cargado", "buscando">>
            /\ pc' = "walk"
            /\ UNCHANGED error
       ELSE /\ console' = Append(console, "analizando")
            /\ error' = IF input_file.k = "missing"
                        THEN "FileNotFoundError" ELSE "JSONDecodeError"
            /\ pc' = "except"
            /\ UNCHANGED data
    /\ UNCHANGED <<input_file, output_file, before, components, found,
                   variants, returned, exit_status>>

\* lines 71-73: data.get('document', {}), the walk, the printed count
Walk ==
    /\ pc = "walk"
    /\ IF ~is_dict(data)
       THEN /\ error' = "AttributeError"
            /\ pc' = "except"
            /\ UNCHANGED <<components, found, console>>
       ELSE LET r == find_components(Get(data, "document", JObj(EmptyDict)), <<>>, <<>>)
            IN IF r.raised
               THEN /\ error' = "TypeError"
                    /\ pc' = "except"
                    /\ UNCHANGED <<components, found, console>>
               ELSE /\ components' = r.components
                    /\ found' = Len(r.components)
                    /\ console' = Append(console, "encontrados")
                    /\ pc' = "report"
                    /\ UNCHANGED error
    /\ UNCHANGED <<input_file, output_file, before, data, variants, returned,
                   exit_status>>

\* lines 76-80: the variants listing
Report ==
    /\ pc = "report"
    /\ variants' = variants_of(components)
    /\ console' = Append(console, "variantes")
    /\ pc' = "write"
    /\ UNCHANGED <<input_file, output_file, before, data, components, found,
                   returned, error, exit_status>>

\* lines 83-87: open(output_file, 'w') and json.dump; open may raise and
\* leave the file alone, json.dump may raise after open truncated the file
Write ==
    /\ pc = "write"
    /\ \E outcome \in {"written", "open_raises", "dump_raises"} :
          IF outcome = "written"
          THEN /\ output_file' = [k |-> "json", v |-> sample(components)]
               /\ console' = Append(console, "guardados")
               /\ pc' = "return"
               /\ UNCHANGED error
          ELSE /\ output_file' = IF outcome = "open_raises"
                                 THEN output_file ELSE [k |-> "partial"]
               /\ error' = "OSError"
               /\ pc' = "except"
               /\ UNCHANGED console
    /\ UNCHANGED <<input_file, before, data, components, found, variants,
                   returned, exit_status>>

\* lines 89 and 100-101: the return, the completion message, the normal exit
Return ==
    /\ pc = "return"
    /\ returned' = components
    /\ console' = Append(console, "completada")
    /\ exit_status' = 0
    /\ pc' = "exited"
    /\ UNCHANGED <<input_file, output_file, before, data, components, found,
                   variants, error>>

\* Except without sys.exit(1): the process ends normally after the message
Except_no_exit ==
    /\ pc = "except"
    /\ console' = Append(console, "error")
    /\ exit_status' = 0
    /\ pc' = "exited"
    /\ UNCHANGED <<input_file, output_file, before, data, components, found,
                   variants, returned, error>>

\* lines 102-104: the catch-all handler
Except ==
    /\ pc = "except"
    /\ console' = Append(console, "error")
    /\ exit_status' = 1
    /\ pc' = "exited"
    /\ UNCHANGED <<input_file, output_file, before, data, components, found,
                   variants, returned, error>>

Next == Main \/ Load \/ Walk \/ Report \/ Write \/ Return \/ Except

Spec == Init /\ [][Next]_vars

\* ------------------------------------------- the tree, seen from outside
\* the root the walk starts from, data being an object
Root == Get(data, "document", JObj(EmptyDict))

\* the walk was attempted and returned / raised
WalkReturned == pc = "report"
WalkRaised == pc = "except" /\ error = "TypeError"

\* an array of children of an object
ChildArray(node) ==
    IF node.t = "obj" /\ "children" \in DOMAIN node.v /\ node.v["children"].t = "arr"
    THEN node.v["children"].v ELSE <<>>

\* the positions (sequences of child indices) reachable from a node through
\* chains of `children` entries of objects
RECURSIVE Addrs(_)
Addrs(node) ==
    {<<>>} \cup UNION {{<<i>> \o a : a \in Addrs(ChildArray(node)[i])} :
                          i \in 1..Len(ChildArray(node))}

RECURSIVE NodeAt(_, _)
NodeAt(node, a) ==
    IF a = <<>> THEN node ELSE NodeAt(ChildArray(node)[a[1]], Tail(a))

\* the name as a string, a missing name counting as the empty string
NameOrEmpty(node) ==
    IF "name" \in DOMAIN node.v /\ node.v["name"].t = "str" THEN node.v["name"].v ELSE <<>>

\* the matching rule as specified
Matches(node) ==
    /\ node.t = "obj"
    /\ "type" \in DOMAIN node.v
    /\ node.v["type"] = JStr(sCOMPONENT)
    /\ \E i \in 1..Len(NameOrEmpty(node)) :
          /\ i + 5 <= Len(NameOrEmpty(node))
          /\ \A k \in 0..5 : NameOrEmpty(node)[i + k] = sButton[k + 1]

MatchAddrs(root) == {a \in Addrs(root) : Matches(NodeAt(root, a))}

\* pre-order: an ancestor before its descendants, an earlier sibling's
\* subtree before a later sibling's
RECURSIVE Before(_, _)
Before(a, b) ==
    IF a = <<>> THEN b # <<>>
    ELSE IF b = <<>> THEN FALSE
    ELSE IF a[1] = b[1] THEN Before(Tail(a), Tail(b))
    ELSE a[1] < b[1]

RECURSIVE InOrder(_)
InOrder(S) ==
    IF S = {} THEN <<>>
    ELSE LET first == CHOOSE a \in S : \A b \in S : a = b \/ Before(a, b)
         IN <<first>> \o InOrder(S \ {first})

\* the positions of the matching nodes in pre-order
Listing(root) == InOrder(MatchAddrs(root))

\* the ancestors of position a, from the root down to the parent
Ancestors(root, a) == [k \in 1..Len(a) |-> NodeAt(root, SubSeq(a, 1, k - 1))]

\* a label for an ancestor: "unnamed" when the name is lacking in any way
\* (key absent, null, empty string)
LabelOrUnnamed(node) ==
    IF \/ "name" \notin DOMAIN node.v
       \/ node.v["name"] = JNull
       \/ node.v["name"] = JStr(sEmpty)
    THEN sunnamed
    ELSE PyStr(node.v["name"])

\* the label the code gives: "unnamed" for an absent key only
LabelOfKey(node) ==
    IF "name" \in DOMAIN node.v THEN PyStr(node.v["name"]) ELSE sunnamed

\* the labels joined by "/", nothing before the first
JoinSlash(labels) ==
    IF labels = <<>> THEN <<>>
    ELSE labels[1] \o Concat([k \in 1..(Len(labels) - 1) |-> <<"/">> \o labels[k + 1]])

\* every label preceded by "/"
SlashEach(labels) == Concat([k \in 1..Len(labels) |-> <<"/">> \o labels[k]])

Categories == {"fills", "strokes", "effects", "cornerRadius", "padding",
               "itemSpacing", "layoutMode", "text", "textStyle"}

SourceKey(c) ==
    CASE c = "padding" -> "paddingLeft"
      [] c = "text" -> "characters"
      [] c = "textStyle" -> "style"
      [] OTHER -> c

\* without the elements of `children` arrays that are not objects
RECURSIVE Strip(_)
Strip(node) ==
    IF node.t # "obj" THEN JObj(EmptyDict)
    ELSE IF ChildArray(node) = <<>> THEN node
    ELSE LET ch == ChildArray(node)
             kept == SelectSeq(ch, LAMBDA c : c.t = "obj")
         IN JObj(Put(node.v, "children", JArr([i \in 1..Len(kept) |-> Strip(kept[i])])))

RECURSIVE Total(_)
Total(vs) == IF vs = <<>> THEN 0 ELSE vs[1].count + Total(Tail(vs))

\* ------------------------------------------------------------ the claims

\* C1: the records find_components returns (none when it raises) are the
\* records of exactly the nodes that are objects reachable through `children`
\* chains, have type "COMPONENT" and a name (missing counting as empty)
\* containing "Button".
C1_MatchesExactly ==
    (WalkReturned \/ WalkRaised) =>
      LET L == Listing(Root)
          recs == IF WalkReturned THEN components ELSE <<>>
      IN /\ Len(recs) = Cardinality(MatchAddrs(Root))
         /\ \A i \in 1..Len(recs) :
               LET n == NodeAt(Root, L[i])
               IN /\ recs[i].name = Get(n, "name", JNull)
                  /\ recs[i].id = Get(n, "id", JNull)

\* C2 as stated: the path of a record is the names of the ancestors of its
\* node, root first, joined by "/".
C2_JoinedBySlash ==
    WalkReturned =>
      LET L == Listing(Root) IN
        \A i \in 1..Len(components) :
            LET anc == Ancestors(Root, L[i])
            IN components[i].path = JoinSlash([k \in 1..Len(anc) |-> LabelOfKey(anc[k])])

\* C2 as amended: the path of a record is, for each ancestor of its node from
\* the root down to the parent, "/" followed by the ancestor's label (its
\* name as Python formats it, "unnamed" when it has no name key); the node's
\* own name is not part of it and a matched root has the empty path.
C2_SlashBeforeEachAncestor ==
    WalkReturned =>
      LET L == Listing(Root) IN
        /\ Len(components) = Len(L)
        /\ \A i \in 1..Len(components) :
              LET anc == Ancestors(Root, L[i])
              IN /\ components[i].path = SlashEach([k \in 1..Len(anc) |-> LabelOfKey(anc[k])])
                 /\ (L[i] = <<>> => components[i].path = <<>>)

C2_Witness ==
    /\ WalkReturned
    /\ \E i \in 1..Len(components) :
          /\ Len(Listing(Root)[i]) = 2
          /\ components[i].path = <<"/", "F", "/">> \o sButton

\* C3: after a successful extraction the output file holds min(10, total)
\* records, the prefix of the walk's sequence in its order, while the printed
\* count, the variants listing and the returned value are of the full sequence.
C3_SampleIsPrefix ==
    exit_status = 0 =>
        /\ output_file.k = "json"
        /\ Len(components) = Cardinality(MatchAddrs(Root))
        /\ Len(output_file.v) =
              (IF Len(components) < 10 THEN Len(components) ELSE 10)
        /\ \A i \in 1..Len(output_file.v) : output_file.v[i] = components[i]
        /\ found = Len(components)
        /\ Total(variants) = Len(components)
        /\ returned = components

C3_Witness ==
    /\ exit_status = 0
    /\ Len(returned) = 11
    /\ Len(output_file.v) = 10
    /\ output_file.v[10] = returned[10]
    /\ \E i \in 1..9 : returned[i] # returned[i + 1]

\* C4: the properties of a record have a category key exactly when the
\* category's source key is on the node (whatever its value), no other key,
\* and the source value unchanged for the categories other than padding.
C4_KeysFollowPresence ==
    WalkReturned =>
      LET L == Listing(Root) IN
        \A i \in 1..Len(components) :
            LET n == NodeAt(Root, L[i])
                p == components[i].properties
            IN /\ DOMAIN p \subseteq Categories
               /\ \A c \in Categories :
                     /\ (c \in DOMAIN p) <=> (SourceKey(c) \in DOMAIN n.v)
                     /\ (c \in DOMAIN p /\ c # "padding") => p[c] = n.v[SourceKey(c)]

C4_Witness ==
    /\ WalkReturned
    /\ Len(components) = 1
    /\ DOMAIN components[1].properties = {"cornerRadius", "text"}
    /\ components[1].properties["cornerRadius"] = JNum(0)
    /\ components[1].properties["text"] = JNull

\* C5: a matched node with paddingLeft gets padding = {left, right, top,
\* bottom} from the four padding keys, null for a missing one; a matched node
\* without paddingLeft gets no padding key whatever other padding keys it has.
C5_PaddingComposite ==
    WalkReturned =>
      LET L == Listing(Root) IN
        \A i \in 1..Len(components) :
            LET n == NodeAt(Root, L[i])
                p == components[i].properties
                side(key) == IF key \in DOMAIN n.v THEN n.v[key] ELSE JNull
            IN IF "paddingLeft" \in DOMAIN n.v
               THEN /\ "padding" \in DOMAIN p
                    /\ p["padding"].t = "obj"
                    /\ DOMAIN p["padding"].v = {"left", "right", "top", "bottom"}
                    /\ p["padding"].v["left"] = n.v["paddingLeft"]
                    /\ p["padding"].v["right"] = side("paddingRight")
                    /\ p["padding"].v["top"] = side("paddingTop")
                    /\ p["padding"].v["bottom"] = side("paddingBottom")
               ELSE "padding" \notin DOMAIN p

C5_Witness ==
    /\ WalkReturned
    /\ Len(components) = 1
    /\ DOMAIN Root.v \cap StyleKeys = {"paddingLeft", "paddingRight"}
    /\ components[1].properties =
          [padding |-> JObj([left |-> JNum(8), right |-> JNum(8),
                             top |-> JNull, bottom |-> JNull])]

\* C6: with the input file missing or not valid JSON the process exits with
\* status 1 and the output file stays as it was; with the file missing no
\* load, walk, report or write step is attempted.
C6_BadInputLeavesOutput ==
    input_file.k \in {"missing", "invalid"} =>
        /\ output_file = before
        /\ pc \in {"main", "load", "except", "exited"}
        /\ exit_status = (IF pc = "exited" THEN 1 ELSE -1)
        /\ components = <<>> /\ found = -1 /\ variants = <<>> /\ data = Unset
        /\ input_file.k = "missing" =>
              /\ pc \in {"main", "exited"}
              /\ error = "none"
              /\ \A i \in 1..Len(console) :
                    console[i] \in {"no_encontrado", "ejecuta_primero"}

C6_Witness ==
    /\ input_file.k = "invalid"
    /\ pc = "exited"
    /\ exit_status = 1
    /\ error = "JSONDecodeError"
    /\ before.k = "json"
    /\ output_file = before

\* the completion messages of the four steps, in the order printed
StepMarks ==
    SelectSeq(console, LAMBDA m : m \in {"cargado", "encontrados", "variantes", "guardados"})

StepOrder == <<"cargado", "encontrados", "variantes", "guardados">>

\* C7: load, walk, report, write happen in this order, each after the one
\* before completed; only the write step touches the output file; the exit
\* status is 0 exactly when the four steps completed and 1 when the input
\* file is missing or a step raised.
C7_StepOrderAndExit ==
    /\ [](/\ StepMarks = SubSeq(StepOrder, 1, Len(StepMarks))
          /\ pc = "walk" => Len(StepMarks) = 1
          /\ pc = "report" => Len(StepMarks) = 2
          /\ pc = "write" => Len(StepMarks) = 3
          /\ pc = "return" => Len(StepMarks) = 4
          /\ pc # "exited" => exit_status = -1
          /\ pc = "exited" =>
                /\ exit_status \in {0, 1}
                /\ exit_status = 0 <=> StepMarks = StepOrder
                /\ exit_status = 1 <=> (input_file.k = "missing" \/ error # "none"))
    /\ [][output_file' # output_file => (pc = "write" /\ Len(StepMarks) = 3)]_vars

C7_Witness ==
    /\ pc = "exited"
    /\ exit_status = 0
    /\ StepMarks = StepOrder
    /\ output_file # before

\* C8: the returned sequence lists the matching nodes in pre-order: a node
\* before the matches below it, the children's subtrees in the children's
\* order, the walk going on below a matching node.
C8_PreOrder ==
    WalkReturned =>
      LET L == Listing(Root) IN
        /\ Len(components) = Len(L)
        /\ \A i \in 1..Len(components) :
              components[i] =
                  component_info(NodeAt(Root, L[i]), components[i].path)
        /\ \A i, j \in 1..Len(components) :
              i < j => Before(L[i], L[j])

C8_Witness ==
    /\ WalkReturned
    /\ Len(components) = 3
    /\ Listing(Root) = <<<<>>, <<1>>, <<2>>>>
    /\ components[1].name = JStr(sXButton)
    /\ components[2].name = JStr(sXButton)
    /\ components[3].name = JStr(sButton)

\* C9: the path handed to the children of a node is the node's own path,
\* "/", and the node's name, or "unnamed" when the name is lacking (key
\* absent, null, or the empty string).
C9_UnnamedWhenLacking ==
    WalkReturned =>
      LET L == Listing(Root) IN
        \A i \in 1..Len(components) :
            LET anc == Ancestors(Root, L[i])
            IN components[i].path = SlashEach([k \in 1..Len(anc) |-> LabelOrUnnamed(anc[k])])

\* C10: a value that is not an object, as the root or in a `children` array,
\* gives no record, nothing inside it gives one, and it does not make the
\* walk fail: the walk does on the tree what it does on the tree without
\* these values.
C10_NonDictsIgnored ==
    (WalkReturned \/ WalkRaised) =>
        LET r == find_components(Strip(Root), <<>>, <<>>)
        IN /\ r.raised = WalkRaised
           /\ WalkReturned => components = r.components
           /\ ~is_dict(Root) => (WalkReturned /\ components = <<>>)

C10_Witness ==
    /\ WalkReturned
    /\ Len(ChildArray(Root)) = 2
    /\ ChildArray(Root)[1] = JArr(<<JObj(ButtonNode)>>)
    /\ ChildArray(Root)[2] = JObj(ButtonNode)
    /\ Len(components) = 1

====
